---- MODULE Spec2Model ----
(***************************************************************************)
(* Per-tenant WhatsApp session orchestration of the studio repository:     *)
(* the user lock (lockedUserIds), the client manager (activeClients,       *)
(* intervalTrackers, deleteClient), generateQrCodeFlow with the handlers   *)
(* it registers on the whatsapp-web.js client, the outbound passes of      *)
(* sendNewContactsFlow with their callers, and handleIncomingMessage.      *)
(*                                                                         *)
(* JavaScript runs each synchronous stretch of code to completion, so one  *)
(* action is one stretch between two awaits: the start of a call up to its *)
(* first await, the continuation after an await, or one event handler.     *)
(* The whatsapp-web.js client, the timers and the callers of the exported  *)
(* functions are the environment: they choose when events, timer expiries  *)
(* and calls happen.                                                       *)
(***************************************************************************)
EXTENDS Integers, Sequences, FiniteSets, TLC

\* ---------------------------------------------------------------- bounds
MaxClients == 2      \* generateQrCode calls (client objects) in one run
MaxSteps == 7        \* operations, continuations and events in one run
MaxContacts == 3     \* documents in the 'contacts' collection
MaxPasses == 2       \* sendNewContacts passes that reach sendMessage in one run
MaxDispatchSteps == 5  \* steps of a run that starts from Ready sessions
MaxInbound == 1      \* handleIncomingMessage calls in one run
MaxInboundContacts == 2  \* contacts in the store when messages come in
MaxIntervals == 3    \* interval timers that are running at one time

\* ------------------------------------------------------------ value sets
Users == {"u1", "u2"}
Handles == 1..MaxClients
NoClient == 0        \* activeClients.get(userId) === undefined
NoUser == "none"     \* a client object that has not been constructed
NoInterval == 0      \* intervalTrackers.has(userId) === false
IntervalIds == 1..MaxIntervals
PassIds == 1..MaxPasses
NoPass == [pc |-> "free"]
InboundIds == 1..MaxInbound
NoContact == 0       \* querySnapshot.empty

\* message.from of an inbound message, and the phone of a contact document
ChatIds == {<<"5511", "@", "c.us">>, <<"status", "@", "broadcast">>}
Phones == {<<"5511">>, <<>>}

\* the status of a contact document
Statuses == {"Pendente", "Contatado", "Respondido", "Recuperado", "Perdido"}

\* what the answer prompt can come back with, and the two fallback texts
PromptOutcomes == {"text", "empty", "error"}
AnswerText == "resposta"
FallbackEmpty == "Desculpe, nao consegui pensar em uma boa resposta para isso."
FallbackError == "Estou com um pouco de dificuldade para processar sua mensagem."
NoInput == <<"No input text">>   \* qrcode.toDataURL throws

\* texts carried by a 'qr' event
QrTexts == {<<>>, <<"2@x">>}

DataUriPrefix == <<"data:image/png;base64,">>

ErrTimeout == "A conexao expirou. Por favor, tente gerar um novo QR Code."
ErrQr == "Falha ao gerar o QR code."
ErrAuth == "Falha na autenticacao. Por favor, gere um novo QR Code."
ErrInit == "Falha ao inicializar o cliente WhatsApp. Tente novamente."

VARIABLES
  lockedUserIds,     \* user-lock: Set of locked user ids
  activeClients,     \* client manager: Map userId -> client
  intervalTrackers,  \* client manager: Map userId -> interval id
  liveIntervals,     \* interval ids set and not yet cleared
  owner,             \* client -> userId closed over by its flow (NoUser: not constructed)
  info,              \* client.info is set
  destroyCalls,      \* number of client.destroy() invocations
  destroyed,         \* the client's browser is closed
  timeoutCleared,    \* clearTimeout(timeoutId) was called
  timeoutFired,      \* the setTimeout callback has run
  qrResolved,        \* the flow's local flag
  qrInflight,        \* 'qr' handlers awaiting qrcode.toDataURL, by text
  promise,           \* the Promise returned by the flow
  messageListeners,  \* number of 'message' listeners on the client
  initFailed,        \* client.initialize() has rejected
  deleting,          \* deleteClient calls awaiting client.destroy(), by client
  flowDeleting,      \* the same, called from generateQrCodeFlow line 126
  flowReady,         \* flows past line 126, about to construct their client
  disconnects,       \* clearActiveClient calls made so far, by user
  contacts,          \* Firestore 'contacts': the documents, in insertion order
  messagesSent,      \* Firestore 'user_stats': messagesSent, by user
  webhookPending,    \* webhook POSTs past their addDoc, not yet resumed, by user
  messageLogs,       \* Firestore 'message_logs': documents, by user
  fetching,          \* sendNewContacts passes awaiting fetchPendingContacts, by client
  sending,           \* sendNewContacts passes inside sendMessage, and their results
  inbound,           \* handleIncomingMessage calls: where each one stands
  last,              \* the operation that ran last, its client, what it returned
  steps              \* operations, continuations and events run so far

lockVars == <<lockedUserIds>>
managerVars == <<activeClients, intervalTrackers, liveIntervals>>
clientVars == <<owner, info, destroyCalls, destroyed, timeoutCleared,
                timeoutFired, qrResolved, qrInflight, promise,
                messageListeners, initFailed>>
callVars == <<deleting, flowDeleting, flowReady, disconnects>>
storeVars == <<contacts, messagesSent, webhookPending, messageLogs>>
dispatchVars == <<fetching, sending>>
inboundVars == <<inbound>>
vars == <<lockVars, managerVars, clientVars, callVars, storeVars, dispatchVars,
          inboundVars, last, steps>>

\* ------------------------------------------------------------- helpers
Created(h) == owner[h] # NoUser

RECURSIVE SumOver(_, _)
SumOver(f, S) ==
  IF S = {} THEN 0
  ELSE LET x == CHOOSE y \in S : TRUE IN f[x] + SumOver(f, S \ {x})

\* generateQrCode calls made so far
FlowsStarted ==
  Cardinality({h \in Handles : Created(h)})
    + SumOver(flowDeleting, Handles) + SumOver(flowReady, Users)

Void == "void"       \* the operation returns nothing, or has not returned yet

\* every action is one more step of the run
Step(name, h, r) ==
  /\ steps < MaxSteps
  /\ steps' = steps + 1
  /\ last' = [op |-> name, client |-> h, ret |-> r]

PendingPromise == [state |-> "pending", qr |-> <<>>, status |-> "", error |-> ""]

ResolveSettled(p, uri) ==
  [state |-> "resolved", qr |-> uri, status |-> "pending_qr", error |-> ""]

\* resolve() and reject() of an already settled Promise do nothing
Resolve(p, uri) ==
  IF p.state = "pending"
  THEN [state |-> "resolved", qr |-> uri, status |-> "pending_qr", error |-> ""]
  ELSE p

Reject(p, e) ==
  IF p.state = "pending"
  THEN [state |-> "rejected", qr |-> <<>>, status |-> "", error |-> e]
  ELSE p

\* qrcode.toDataURL: a data URI of the rendered code, or a throw on empty text
toDataURL(text) ==
  IF Len(text) = 0 THEN NoInput ELSE DataUriPrefix \o text

getClientStatus(u) ==
  IF activeClients[u] # NoClient THEN "connected" ELSE "disconnected"

isLocked(u) == u \in lockedUserIds

getClientOfAnyUser(u) ==
  IF activeClients[u] # NoClient \/ \A v \in Users : activeClients[v] = NoClient
  THEN activeClients[u]
  ELSE activeClients[CHOOSE v \in Users : activeClients[v] # NoClient]

getClient(u) == activeClients[u]

\* a sendNewContacts call up to `await fetchPendingContacts(userId)`, for
\* the client c that getClient returned: without a client it returns at once
sendNewContactsStart(f, c) ==
  IF c # NoClient THEN [f EXCEPT ![c] = @ + 1] ELSE f

\* ----------------------------------------------------------------- Init
Init ==
  /\ lockedUserIds = {}
  /\ activeClients = [u \in Users |-> NoClient]
  /\ intervalTrackers = [u \in Users |-> NoInterval]
  /\ liveIntervals = {}
  /\ owner = [h \in Handles |-> NoUser]
  /\ info = [h \in Handles |-> FALSE]
  /\ destroyCalls = [h \in Handles |-> 0]
  /\ destroyed = [h \in Handles |-> FALSE]
  /\ timeoutCleared = [h \in Handles |-> FALSE]
  /\ timeoutFired = [h \in Handles |-> FALSE]
  /\ qrResolved = [h \in Handles |-> FALSE]
  /\ qrInflight = [h \in Handles |-> [t \in QrTexts |-> 0]]
  /\ promise = [h \in Handles |-> PendingPromise]
  /\ messageListeners = [h \in Handles |-> 0]
  /\ initFailed = [h \in Handles |-> FALSE]
  /\ deleting = [h \in Handles |-> 0]
  /\ flowDeleting = [h \in Handles |-> 0]
  /\ flowReady = [u \in Users |-> 0]
  /\ disconnects = [u \in Users |-> 0]
  /\ contacts = <<>>
  /\ messagesSent = [u \in Users |-> 0]
  /\ webhookPending = [u \in Users |-> 0]
  /\ messageLogs = [u \in Users |-> 0]
  /\ inbound = [i \in InboundIds |-> NoPass]
  /\ fetching = [h \in Handles |-> 0]
  /\ sending = [p \in PassIds |-> NoPass]
  /\ last = [op |-> "init", client |-> NoClient, ret |-> Void]
  /\ steps = 0

\* ------------------------------------------------------------ user lock
acquireLockResultAlways(u) == TRUE

\* acquireLock's return value
acquireLockResult(u) == ~isLocked(u)

acquireLock(u) ==
  /\ Step("acquireLock", NoClient, IF acquireLockResult(u) THEN "true" ELSE "false")
  /\ UNCHANGED <<storeVars, dispatchVars, inboundVars>>
  /\ lockedUserIds' = IF isLocked(u) THEN lockedUserIds ELSE lockedUserIds \cup {u}
  /\ UNCHANGED <<managerVars, clientVars, callVars>>

releaseLockToggles(locked, u) ==
  IF u \in locked THEN locked \ {u} ELSE locked \cup {u}

\* the lock set releaseLock leaves behind
releaseLockResult(locked, u) ==
  IF u \in locked THEN locked \ {u} ELSE locked

releaseLock(u) ==
  /\ Step("releaseLock", NoClient, Void)
  /\ UNCHANGED <<storeVars, dispatchVars, inboundVars>>
  /\ lockedUserIds' = releaseLockResult(lockedUserIds, u)
  /\ UNCHANGED <<managerVars, clientVars, callVars>>

\* ------------------------------------------------------- client manager
setClientDropped(ac, u, h) == ac

setClientForAll(ac, u, h) == [v \in Users |-> h]

setClient(ac, u, h) == [ac EXCEPT ![u] = h]

\* stopSendingInterval: clearInterval and forget the tracked id
stopSendingInterval(u) ==
  /\ liveIntervals' = liveIntervals \ {intervalTrackers[u]}
  /\ intervalTrackers' = [intervalTrackers EXCEPT ![u] = NoInterval]

\* client.destroy() is invoked on c
DestroyInvoked(dc, c) == [dc EXCEPT ![c] = @ + 1]

\* deleteClient up to its await: the destroy() invocations it adds to dc
deleteClientDestroys(dc, u) ==
  IF activeClients[u] # NoClient THEN DestroyInvoked(dc, activeClients[u]) ELSE dc

\* deleteClient up to its await: the call now waiting, added to the counter d
deleteClientAwaits(d, u) ==
  IF activeClients[u] # NoClient THEN [d EXCEPT ![activeClients[u]] = @ + 1] ELSE d

deleteClientKeepsEntry(ac, u, threw) == ac

deleteClientOnlyOnSuccess(ac, u, threw) ==
  IF threw THEN ac ELSE [ac EXCEPT ![u] = NoClient]

\* the finally block of deleteClient
deleteClientFinally(ac, u, threw) == [ac EXCEPT ![u] = NoClient]

\* the browser of a client whose destroy() was invoked closes
BrowserClosed(h) ==
  /\ Created(h)
  /\ destroyCalls[h] > 0
  /\ ~destroyed[h]
  /\ destroyed' = [destroyed EXCEPT ![h] = TRUE]
  /\ Step("BrowserClosed", h, Void)
  /\ UNCHANGED <<storeVars, dispatchVars, inboundVars>>
  /\ UNCHANGED <<lockVars, managerVars, callVars, owner, info, destroyCalls,
                 timeoutCleared, timeoutFired, qrResolved, qrInflight, promise,
                 messageListeners, initFailed>>

\* deleteClient after its await: destroy() resolved (the browser is closed)
\* or threw; either way the finally block runs
deleteClientResume(h, threw) ==
  /\ deleting[h] > 0
  /\ ~threw => destroyed[h]
  /\ deleting' = [deleting EXCEPT ![h] = @ - 1]
  /\ activeClients' = deleteClientFinally(activeClients, owner[h], threw)
  /\ Step("deleteClientResume", h, Void)
  /\ UNCHANGED <<storeVars, dispatchVars, inboundVars>>
  /\ UNCHANGED <<lockVars, intervalTrackers, liveIntervals, clientVars,
                 flowDeleting, flowReady, disconnects>>

\* clearActiveClientFlow: await deleteClient(userId)
clearActiveClient(u) ==
  /\ stopSendingInterval(u)
  /\ destroyCalls' = deleteClientDestroys(destroyCalls, u)
  /\ deleting' = deleteClientAwaits(deleting, u)
  /\ disconnects' = [disconnects EXCEPT ![u] = @ + 1]
  /\ Step("clearActiveClient", activeClients[u], Void)
  /\ UNCHANGED <<storeVars, dispatchVars, inboundVars>>
  /\ UNCHANGED <<lockVars, activeClients, owner, info, destroyed, timeoutCleared,
                 timeoutFired, qrResolved, qrInflight, promise, messageListeners,
                 initFailed, flowDeleting, flowReady>>

\* --------------------------------------------------- generateQrCodeFlow
\* lines 122-126: the call up to `await deleteClient(userId)`
generateQrCode(u) ==
  /\ FlowsStarted < MaxClients
  /\ stopSendingInterval(u)
  /\ destroyCalls' = deleteClientDestroys(destroyCalls, u)
  /\ flowDeleting' = deleteClientAwaits(flowDeleting, u)
  /\ flowReady' = IF activeClients[u] = NoClient
                  THEN [flowReady EXCEPT ![u] = @ + 1] ELSE flowReady
  /\ Step("generateQrCode", activeClients[u], Void)
  /\ UNCHANGED <<storeVars, dispatchVars, inboundVars>>
  /\ UNCHANGED <<lockVars, activeClients, owner, info, destroyed, timeoutCleared,
                 timeoutFired, qrResolved, qrInflight, promise, messageListeners,
                 initFailed, deleting, disconnects>>

\* the flow's deleteClient after its await; the flow then goes on to line 130
flowDeleteClientResume(h, threw) ==
  /\ flowDeleting[h] > 0
  /\ ~threw => destroyed[h]
  /\ flowDeleting' = [flowDeleting EXCEPT ![h] = @ - 1]
  /\ flowReady' = [flowReady EXCEPT ![owner[h]] = @ + 1]
  /\ activeClients' = deleteClientFinally(activeClients, owner[h], threw)
  /\ Step("flowDeleteClientResume", h, Void)
  /\ UNCHANGED <<storeVars, dispatchVars, inboundVars>>
  /\ UNCHANGED <<lockVars, intervalTrackers, liveIntervals, clientVars, deleting, disconnects>>

NewHandle == CHOOSE h \in Handles : ~Created(h) /\ \A g \in Handles : g < h => Created(g)

\* lines 130-213: new Client, the Promise executor (timer set, handlers
\* registered, initialize() called)
createClient(u) ==
  /\ flowReady[u] > 0
  /\ \E h \in Handles : ~Created(h)
  /\ flowReady' = [flowReady EXCEPT ![u] = @ - 1]
  /\ owner' = [owner EXCEPT ![NewHandle] = u]
  /\ Step("createClient", NewHandle, Void)
  /\ UNCHANGED <<storeVars, dispatchVars, inboundVars>>
  /\ UNCHANGED <<lockVars, managerVars, info, destroyCalls, destroyed,
                 timeoutCleared, timeoutFired, qrResolved, qrInflight, promise,
                 messageListeners, initFailed, deleting, flowDeleting, disconnects>>

\* ------------------------------------------- events of a client object
\* a constructed client whose browser is still open can emit events
Emitting(h) == Created(h) /\ ~destroyed[h]

\* whatsapp-web.js sets client.info once the account is authenticated and
\* synced, before it emits 'ready'
infoSet(h) ==
  /\ Emitting(h)
  /\ ~info[h]
  /\ info' = [info EXCEPT ![h] = TRUE]
  /\ Step("infoSet", h, Void)
  /\ UNCHANGED <<storeVars, dispatchVars, inboundVars>>
  /\ UNCHANGED <<lockVars, managerVars, callVars, owner, destroyCalls, destroyed,
                 timeoutCleared, timeoutFired, qrResolved, qrInflight, promise,
                 messageListeners, initFailed>>

clientNotReadyUnchecked(h) == TRUE

\* the condition of line 153
clientNotReady(h) == ~info[h]

\* lines 152-159: the setTimeout callback
timeoutCallback(h) ==
  /\ Created(h)
  /\ ~timeoutCleared[h]
  /\ ~timeoutFired[h]
  /\ timeoutFired' = [timeoutFired EXCEPT ![h] = TRUE]
  /\ Step("timeoutCallback", h, Void)
  /\ UNCHANGED <<storeVars, dispatchVars, inboundVars>>
  /\ IF clientNotReady(h)
     THEN /\ destroyCalls' = deleteClientDestroys(DestroyInvoked(destroyCalls, h), owner[h])
          /\ stopSendingInterval(owner[h])
          /\ deleting' = deleteClientAwaits(deleting, owner[h])
          /\ promise' = [promise EXCEPT ![h] = Reject(@, ErrTimeout)]
     ELSE UNCHANGED <<destroyCalls, intervalTrackers, liveIntervals, deleting, promise>>
  /\ UNCHANGED <<lockVars, activeClients, owner, info, destroyed, timeoutCleared,
                 qrResolved, qrInflight, messageListeners, initFailed,
                 flowDeleting, flowReady, disconnects>>

\* lines 161-165: the 'qr' handler up to `await qrcode.toDataURL(qr)`
qrEvent(h, text) ==
  /\ Emitting(h)
  /\ qrInflight' = IF ~qrResolved[h]
                   THEN [qrInflight EXCEPT ![h][text] = @ + 1] ELSE qrInflight
  /\ Step("qrEvent", h, Void)
  /\ UNCHANGED <<storeVars, dispatchVars, inboundVars>>
  /\ UNCHANGED <<lockVars, managerVars, callVars, owner, info, destroyCalls,
                 destroyed, timeoutCleared, timeoutFired, qrResolved, promise,
                 messageListeners, initFailed>>

\* lines 165-172: the 'qr' handler after the await
qrResume(h, text) ==
  /\ qrInflight[h][text] > 0
  /\ qrInflight' = [qrInflight EXCEPT ![h][text] = @ - 1]
  /\ Step("qrResume", h, Void)
  /\ UNCHANGED <<storeVars, dispatchVars, inboundVars>>
  /\ IF toDataURL(text) # NoInput
     THEN /\ qrResolved' = [qrResolved EXCEPT ![h] = TRUE]
          /\ promise' = [promise EXCEPT ![h] = Resolve(@, toDataURL(text))]
          /\ UNCHANGED timeoutCleared
     ELSE /\ timeoutCleared' = [timeoutCleared EXCEPT ![h] = TRUE]
          /\ promise' = [promise EXCEPT ![h] = Reject(@, ErrQr)]
          /\ UNCHANGED qrResolved
  /\ UNCHANGED <<lockVars, managerVars, callVars, owner, info, destroyCalls,
                 destroyed, timeoutFired, messageListeners, initFailed>>

\* lines 176-192: the 'ready' handler.  The sendNewContacts pass it awaits
\* reads the registry and writes only the contact store.
readyEvent(h) ==
  /\ Emitting(h)
  /\ info[h]
  /\ timeoutCleared' = [timeoutCleared EXCEPT ![h] = TRUE]
  /\ activeClients' = setClient(activeClients, owner[h], h)
  /\ messageListeners' = [messageListeners EXCEPT ![h] = @ + 1]
  /\ Step("readyEvent", h, Void)
  /\ fetching' = sendNewContactsStart(fetching, activeClients'[owner[h]])
  /\ UNCHANGED <<storeVars, sending, inboundVars>>
  /\ UNCHANGED <<lockVars, intervalTrackers, liveIntervals, callVars, owner, info,
                 destroyCalls, destroyed, timeoutFired, qrResolved, qrInflight,
                 promise, initFailed>>

\* lines 194-199: the 'auth_failure' handler
authFailureEvent(h) ==
  /\ Emitting(h)
  /\ timeoutCleared' = [timeoutCleared EXCEPT ![h] = TRUE]
  /\ stopSendingInterval(owner[h])
  /\ destroyCalls' = deleteClientDestroys(destroyCalls, owner[h])
  /\ deleting' = deleteClientAwaits(deleting, owner[h])
  /\ promise' = [promise EXCEPT ![h] = Reject(@, ErrAuth)]
  /\ Step("authFailureEvent", h, Void)
  /\ UNCHANGED <<storeVars, dispatchVars, inboundVars>>
  /\ UNCHANGED <<lockVars, activeClients, owner, info, destroyed, timeoutFired,
                 qrResolved, qrInflight, messageListeners, initFailed,
                 flowDeleting, flowReady, disconnects>>

\* lines 201-206: the 'disconnected' handler
disconnectedEvent(h) ==
  /\ Emitting(h)
  /\ timeoutCleared' = [timeoutCleared EXCEPT ![h] = TRUE]
  /\ stopSendingInterval(owner[h])
  /\ destroyCalls' = deleteClientDestroys(destroyCalls, owner[h])
  /\ deleting' = deleteClientAwaits(deleting, owner[h])
  /\ Step("disconnectedEvent", h, Void)
  /\ UNCHANGED <<storeVars, dispatchVars, inboundVars>>
  /\ UNCHANGED <<lockVars, activeClients, owner, info, destroyed, timeoutFired,
                 qrResolved, qrInflight, promise, messageListeners, initFailed,
                 flowDeleting, flowReady, disconnects>>

\* lines 208-212: client.initialize() rejects
initializeRejected(h) ==
  /\ Created(h)
  /\ ~initFailed[h]
  /\ initFailed' = [initFailed EXCEPT ![h] = TRUE]
  /\ timeoutCleared' = [timeoutCleared EXCEPT ![h] = TRUE]
  /\ promise' = [promise EXCEPT ![h] = Reject(@, ErrInit)]
  /\ Step("initializeRejected", h, Void)
  /\ UNCHANGED <<storeVars, dispatchVars, inboundVars>>
  /\ UNCHANGED <<lockVars, managerVars, callVars, owner, info, destroyCalls,
                 destroyed, timeoutFired, qrResolved, qrInflight, messageListeners>>

\* ----------------------------------------------------------------- Next
Next ==
  \/ \E u \in Users : acquireLock(u)
  \/ \E u \in Users : releaseLock(u)
  \/ \E u \in Users : clearActiveClient(u)
  \/ \E u \in Users : generateQrCode(u)
  \/ \E u \in Users : createClient(u)
  \/ \E h \in Handles, threw \in BOOLEAN : deleteClientResume(h, threw)
  \/ \E h \in Handles, threw \in BOOLEAN : flowDeleteClientResume(h, threw)
  \/ \E h \in Handles : BrowserClosed(h)
  \/ \E h \in Handles : infoSet(h)
  \/ \E h \in Handles : timeoutCallback(h)
  \/ \E h \in Handles, text \in QrTexts : qrEvent(h, text)
  \/ \E h \in Handles, text \in QrTexts : qrResume(h, text)
  \/ \E h \in Handles : readyEvent(h)
  \/ \E h \in Handles : authFailureEvent(h)
  \/ \E h \in Handles : disconnectedEvent(h)
  \/ \E h \in Handles : initializeRejected(h)

Spec == Init /\ [][Next]_vars

\* What the runtime does by itself once it is due: a timer that was not
\* cleared expires, an awaited qrcode.toDataURL or client.destroy() settles,
\* a browser told to close closes, and a flow past its deleteClient goes on
\* to construct its client.  Calls and client events are the
\* environment's and may never come.
Fairness ==
  /\ \A h \in Handles : WF_vars(timeoutCallback(h))
  /\ \A h \in Handles : WF_vars(\E text \in QrTexts : qrResume(h, text))
  /\ \A h \in Handles : WF_vars(\E threw \in BOOLEAN : deleteClientResume(h, threw))
  /\ \A h \in Handles : WF_vars(\E threw \in BOOLEAN : flowDeleteClientResume(h, threw))
  /\ \A h \in Handles : WF_vars(BrowserClosed(h))
  /\ \A u \in Users : WF_vars(createClient(u))

FairSpec == Spec /\ Fairness

\* ------------------------------------------- sendNewContactsFlow, triggers
\* what a pass returns: success and count (the message text is derived)
NotConnected == [success |-> FALSE, count |-> 0]
Sent(n) == [success |-> TRUE, count |-> n]

\* a step of a run that starts from Ready sessions
DispatchStep(name, h, r) == steps < MaxDispatchSteps /\ Step(name, h, r)

\* fetchPendingContacts: the tenant's documents with status 'Pendente', as
\* the query returns them; an error of the query gives the empty list
fetchPendingContacts(u, queryFailed) ==
  IF queryFailed THEN <<>>
  ELSE SelectSeq([i \in 1..Len(contacts) |-> i],
                 LAMBDA i : contacts[i].userId = u /\ contacts[i].status = "Pendente")

\* sendNewContactsFlow up to its first await, called on its own
sendNewContacts(u) ==
  /\ fetching' = sendNewContactsStart(fetching, getClient(u))
  /\ DispatchStep("sendNewContacts", getClient(u),
                  IF getClient(u) = NoClient THEN NotConnected ELSE Void)
  /\ UNCHANGED <<lockVars, managerVars, clientVars, callVars, storeVars, sending,
                 inboundVars>>

\* resendMessagesFlow up to `await sendNewContacts({ userId })`
resendMessages(u) ==
  /\ fetching' = IF getClientStatus(u) = "connected"
                 THEN sendNewContactsStart(fetching, getClient(u)) ELSE fetching
  /\ DispatchStep("resendMessages", getClient(u),
                  IF getClientStatus(u) # "connected" THEN NotConnected ELSE Void)
  /\ UNCHANGED <<lockVars, managerVars, clientVars, callVars, storeVars, sending,
                 inboundVars>>

runCronFirstUserOnly(f) ==
  [h \in Handles |-> f[h] + IF activeClients["u1"] = h THEN 1 ELSE 0]

\* lines 14-38: sendNewContacts for every user of getAllClients(); each one
\* runs up to its first await inside the forEach
runCronPasses(f) ==
  [h \in Handles |-> f[h] + Cardinality({u \in Users : activeClients[u] = h})]

\* one tick of the cron job
runCron ==
  /\ fetching' = runCronPasses(fetching)
  /\ DispatchStep("runCron", NoClient, Void)
  /\ UNCHANGED <<lockVars, managerVars, clientVars, callVars, storeVars, sending,
                 inboundVars>>

\* webhook POST: the addDoc of the new contact, status 'Pendente'
webhookPost(u, phone) ==
  /\ Len(contacts) < MaxContacts
  /\ contacts' = Append(contacts, [userId |-> u, phone |-> phone,
                                    status |-> "Pendente"])
  /\ webhookPending' = [webhookPending EXCEPT ![u] = @ + 1]
  /\ DispatchStep("webhookPost", NoClient, Void)
  /\ UNCHANGED <<lockVars, managerVars, clientVars, callVars, messagesSent,
                 messageLogs, dispatchVars, inboundVars>>

\* webhook POST after the addDoc: sendNewContacts, not awaited; status 201
webhookResume(u) ==
  /\ webhookPending[u] > 0
  /\ webhookPending' = [webhookPending EXCEPT ![u] = @ - 1]
  /\ fetching' = sendNewContactsStart(fetching, getClient(u))
  /\ DispatchStep("webhookResume", getClient(u), Void)
  /\ UNCHANGED <<lockVars, managerVars, clientVars, callVars, contacts,
                 messagesSent, messageLogs, sending, inboundVars>>

FreePass ==
  CHOOSE p \in PassIds :
    sending[p].pc = "free" /\ \A q \in PassIds : q < p => sending[q].pc # "free"

\* the value sendNewContactsFlow returns once sendMessage has returned
sendNewContactsResult(batch) == Sent(Len(batch))

\* sendNewContactsFlow after fetchPendingContacts: an empty list is
\* answered at once, any other is handed to sendMessage
sendNewContactsFetched(h, queryFailed) ==
  /\ fetching[h] > 0
  /\ fetching' = [fetching EXCEPT ![h] = @ - 1]
  /\ LET batch == fetchPendingContacts(owner[h], queryFailed) IN
       IF Len(batch) > 0
       THEN /\ \E p \in PassIds : sending[p].pc = "free"
            /\ sending' = [sending EXCEPT ![FreePass] =
                             [pc |-> "send", client |-> h, userId |-> owner[h],
                              batch |-> batch, attempts |-> <<>>, result |-> Void]]
            /\ DispatchStep("sendNewContactsFetched", h, Void)
       ELSE /\ sending' = sending
            /\ DispatchStep("sendNewContactsNothingPending", h, Sent(0))
  /\ UNCHANGED <<lockVars, managerVars, clientVars, callVars, storeVars, inboundVars>>

\* sendMessage after an attempt: the next contact, or back in the flow
sendMessageAbortsOnFailure(pass, attempts) ==
  IF Len(attempts) = Len(pass.batch) \/ ~attempts[Len(attempts)].ok
  THEN [pass EXCEPT !.pc = "done", !.attempts = attempts,
                    !.result = sendNewContactsResult(pass.batch)]
  ELSE [pass EXCEPT !.attempts = attempts]

sendMessageNext(pass, attempts) ==
  IF Len(attempts) = Len(pass.batch)
  THEN [pass EXCEPT !.pc = "done", !.attempts = attempts,
                    !.result = sendNewContactsResult(pass.batch)]
  ELSE [pass EXCEPT !.attempts = attempts]

incrementOverwrites(counter, u) == [counter EXCEPT ![u] = 1]

\* setDoc(userStatsRef, { messagesSent: increment(1) }, { merge: true }): the
\* server adds one to the stored value in the one write, whatever other
\* writes are in flight
increment(counter, u) == [counter EXCEPT ![u] = @ + 1]

\* sendMessage: the send to the next contact of the list has settled; a
\* contact whose send succeeded is marked 'Contatado' and counted
sendMessageStep(p, ok) ==
  /\ sending[p].pc = "send"
  /\ LET pass == sending[p]
         c == pass.batch[Len(pass.attempts) + 1]
     IN /\ contacts' = IF ok THEN [contacts EXCEPT ![c].status = "Contatado"]
                        ELSE contacts
        /\ messagesSent' = IF ok THEN increment(messagesSent, pass.userId)
                            ELSE messagesSent
        /\ sending' = [sending EXCEPT ![p] =
                         sendMessageNext(pass, Append(pass.attempts,
                                                      [contact |-> c, ok |-> ok]))]
        /\ DispatchStep("sendMessageStep", pass.client, Void)
  /\ UNCHANGED <<lockVars, managerVars, clientVars, callVars, webhookPending,
                 messageLogs, fetching, inboundVars>>

\* The contact store with Ready sessions: every user has either no client
\* or a client that was paired, is registered and finished its first pass.
ReadyClients(ow) ==
  /\ \A h, g \in Handles : (ow[h] # NoUser /\ ow[h] = ow[g]) => h = g
  /\ \A h, g \in Handles : (ow[h] # NoUser /\ g < h) => ow[g] # NoUser

\* the store a dispatch run starts from: contacts of one tenant, all
\* waiting; further contacts arrive through the webhook
InitialContacts ==
  {[i \in 1..n |-> [userId |-> u, phone |-> <<"5511">>, status |-> "Pendente"]] :
     n \in 0..MaxContacts, u \in Users}

ReadyDispatching(stores, calls, passes) ==
  /\ \E ow \in [Handles -> Users \cup {NoUser}] :
       /\ ReadyClients(ow)
       /\ owner = ow
       /\ activeClients = [u \in Users |->
            IF \E h \in Handles : ow[h] = u
            THEN CHOOSE h \in Handles : ow[h] = u ELSE NoClient]
       /\ info = [h \in Handles |-> ow[h] # NoUser]
       /\ timeoutCleared = [h \in Handles |-> ow[h] # NoUser]
       /\ qrResolved = [h \in Handles |-> ow[h] # NoUser]
       /\ promise = [h \in Handles |->
            IF ow[h] # NoUser THEN Resolve(PendingPromise, toDataURL(<<"2@x">>))
            ELSE PendingPromise]
       /\ messageListeners = [h \in Handles |-> IF ow[h] # NoUser THEN 1 ELSE 0]
  /\ contacts \in stores
  /\ lockedUserIds = {}
  /\ intervalTrackers = [u \in Users |-> NoInterval]
  /\ liveIntervals = {}
  /\ destroyCalls = [h \in Handles |-> 0]
  /\ destroyed = [h \in Handles |-> FALSE]
  /\ timeoutFired = [h \in Handles |-> FALSE]
  /\ qrInflight = [h \in Handles |-> [t \in QrTexts |-> 0]]
  /\ initFailed = [h \in Handles |-> FALSE]
  /\ deleting = [h \in Handles |-> 0]
  /\ flowDeleting = [h \in Handles |-> 0]
  /\ flowReady = [u \in Users |-> 0]
  /\ disconnects = [u \in Users |-> 0]
  /\ messagesSent = [u \in Users |-> 0]
  /\ webhookPending = [u \in Users |-> 0]
  /\ messageLogs = [u \in Users |-> 0]
  /\ inbound \in calls
  /\ fetching = [h \in Handles |-> IF owner[h] # NoUser THEN passes ELSE 0]
  /\ sending = [p \in PassIds |-> NoPass]
  /\ last = [op |-> "init", client |-> NoClient, ret |-> Void]
  /\ steps = 0

\* Ready sessions with no pass started
ReadyWith(stores, calls) == ReadyDispatching(stores, calls, 0)

\* Ready sessions with no message being handled
ReadyInit(stores) == ReadyWith(stores, {[i \in InboundIds |-> NoPass]})

DispatchInit == ReadyInit(InitialContacts)

DispatchNext ==
  \/ \E u \in Users : sendNewContacts(u)
  \/ \E u \in Users : resendMessages(u)
  \/ runCron
  \/ \E u \in Users : webhookPost(u, <<"5511">>)
  \/ \E u \in Users : webhookResume(u)
  \/ \E h \in Handles : steps < MaxDispatchSteps /\ readyEvent(h)
  \/ \E h \in Handles, queryFailed \in BOOLEAN : sendNewContactsFetched(h, queryFailed)
  \/ \E p \in PassIds, ok \in BOOLEAN : sendMessageStep(p, ok)

DispatchSpec == DispatchInit /\ [][DispatchNext]_vars

\* ------------------------------------------------ handleIncomingMessage
\* chatId.split('@')[0]: what stands before the first '@'
RECURSIVE BeforeAt(_)
BeforeAt(chatId) ==
  IF chatId = <<>> \/ Head(chatId) = "@" THEN <<>>
  ELSE <<Head(chatId)>> \o BeforeAt(Tail(chatId))

matchingContactsOfAnyStatus(u, phone) ==
  SelectSeq([i \in 1..Len(contacts) |-> i],
            LAMBDA i : contacts[i].userId = u /\ contacts[i].phone = phone)

\* the query of lines 49-56: the user's contacts with that phone that were
\* messaged or have replied before, in the order the query returns them
matchingContacts(u, phone) ==
  SelectSeq([i \in 1..Len(contacts) |-> i],
            LAMBDA i : /\ contacts[i].userId = u
                       /\ contacts[i].phone = phone
                       /\ contacts[i].status \in {"Contatado", "Respondido"})

contactDocLast(found) == found[Len(found)]

\* line 63: querySnapshot.docs[0]
contactDoc(found) == found[1]

\* generateAnswerFlow: the prompt's text, or a fallback text when the prompt
\* gave nothing or threw
generateAnswer(outcome) ==
  CASE outcome = "text" -> AnswerText
    [] outcome = "empty" -> FallbackEmpty
    [] outcome = "error" -> FallbackError

FreeInbound ==
  CHOOSE i \in InboundIds :
    inbound[i].pc = "free" /\ \A j \in InboundIds : j < i => inbound[j].pc # "free"

caughtAndCarriedOn(call) == [call EXCEPT !.pc = "update", !.error = TRUE]

\* the catch of lines 103-105: the error is logged, the call is over
caught(call) == [call EXCEPT !.pc = "done", !.error = TRUE]

\* a 'message' event: the listener calls handleIncomingMessage, which runs
\* up to `await getDocs(q)`
messageEvent(h, chatId) ==
  /\ Emitting(h)
  /\ messageListeners[h] = 1
  /\ \E i \in InboundIds : inbound[i].pc = "free"
  /\ inbound' = [inbound EXCEPT ![FreeInbound] =
                   [pc |-> "query", client |-> h, userId |-> owner[h],
                    chatId |-> chatId, phone |-> BeforeAt(chatId),
                    contact |-> NoContact, answer |-> "", sent |-> FALSE,
                    error |-> FALSE]]
  /\ Step("messageEvent", h, Void)
  /\ UNCHANGED <<lockVars, managerVars, clientVars, callVars, storeVars, dispatchVars>>

\* lines 56-66: after the query, up to `await generateAnswer(...)`
queryResume(i, threw) ==
  /\ inbound[i].pc = "query"
  /\ LET call == inbound[i]
         found == matchingContacts(call.userId, call.phone)
     IN inbound' = [inbound EXCEPT ![i] =
          IF threw THEN caught(call)
          ELSE IF Len(found) = 0 THEN [call EXCEPT !.pc = "done"]
          ELSE [call EXCEPT !.pc = "answer", !.contact = contactDoc(found)]]
  /\ Step("queryResume", inbound[i].client, Void)
  /\ UNCHANGED <<lockVars, managerVars, clientVars, callVars, storeVars, dispatchVars>>

\* lines 68-78 and 94-99: with an answer, up to `await client.sendMessage`;
\* without one, up to `await updateDoc`
answerResume(i, outcome) ==
  /\ inbound[i].pc = "answer"
  /\ inbound' = [inbound EXCEPT ![i] =
       [@ EXCEPT !.answer = generateAnswer(outcome),
                 !.pc = IF generateAnswer(outcome) # "" THEN "send" ELSE "update"]]
  /\ Step("answerResume", inbound[i].client, Void)
  /\ UNCHANGED <<lockVars, managerVars, clientVars, callVars, storeVars, dispatchVars>>

\* lines 78-85: client.sendMessage has settled; up to the addDoc of the log
sendResume(i, threw) ==
  /\ inbound[i].pc = "send"
  /\ inbound' = [inbound EXCEPT ![i] =
       IF threw THEN caught(@) ELSE [@ EXCEPT !.pc = "log", !.sent = TRUE]]
  /\ Step("sendResume", inbound[i].client, Void)
  /\ UNCHANGED <<lockVars, managerVars, clientVars, callVars, storeVars, dispatchVars>>

\* lines 81-89: the log document is written; up to the setDoc of the counter
logResume(i, threw) ==
  /\ inbound[i].pc = "log"
  /\ inbound' = [inbound EXCEPT ![i] =
       IF threw THEN caught(@) ELSE [@ EXCEPT !.pc = "stats"]]
  /\ messageLogs' = IF threw THEN messageLogs
                    ELSE [messageLogs EXCEPT ![inbound[i].userId] = @ + 1]
  /\ Step("logResume", inbound[i].client, Void)
  /\ UNCHANGED <<lockVars, managerVars, clientVars, callVars, contacts, messagesSent,
                 webhookPending, dispatchVars>>

\* lines 87-99: the counter is incremented; up to the updateDoc of the status
statsResume(i, threw) ==
  /\ inbound[i].pc = "stats"
  /\ inbound' = [inbound EXCEPT ![i] =
       IF threw THEN caught(@) ELSE [@ EXCEPT !.pc = "update"]]
  /\ messagesSent' = IF threw THEN messagesSent
                     ELSE increment(messagesSent, inbound[i].userId)
  /\ Step("statsResume", inbound[i].client, Void)
  /\ UNCHANGED <<lockVars, managerVars, clientVars, callVars, contacts, messageLogs,
                 webhookPending, dispatchVars>>

\* lines 96-101: the status is written
updateResume(i, threw) ==
  /\ inbound[i].pc = "update"
  /\ inbound' = [inbound EXCEPT ![i] =
       IF threw THEN caught(@) ELSE [@ EXCEPT !.pc = "done"]]
  /\ contacts' = IF threw THEN contacts
                 ELSE [contacts EXCEPT ![inbound[i].contact].status = "Respondido"]
  /\ Step("updateResume", inbound[i].client, Void)
  /\ UNCHANGED <<lockVars, managerVars, clientVars, callVars, messagesSent,
                 messageLogs, webhookPending, dispatchVars>>

\* The store as messages come in: contacts of one tenant, each in any
\* status (the tenant a message is for may be the other one)
InboundContacts ==
  UNION {[1..n -> [userId : {u}, phone : {<<"5511">>}, status : Statuses]] :
           n \in 0..MaxInboundContacts, u \in Users}

InboundInit == ReadyInit(InboundContacts)

InboundNext ==
  \/ \E h \in Handles, chatId \in ChatIds : messageEvent(h, chatId)
  \/ \E i \in InboundIds, threw \in BOOLEAN : queryResume(i, threw)
  \/ \E i \in InboundIds, outcome \in PromptOutcomes : answerResume(i, outcome)
  \/ \E i \in InboundIds, threw \in BOOLEAN : sendResume(i, threw)
  \/ \E i \in InboundIds, threw \in BOOLEAN : logResume(i, threw)
  \/ \E i \in InboundIds, threw \in BOOLEAN : statsResume(i, threw)
  \/ \E i \in InboundIds, threw \in BOOLEAN : updateResume(i, threw)

InboundSpec == InboundInit /\ [][InboundNext]_vars

\* ------------------------------------------- the dashboard's contact form
\* EditContactPage.onSubmit: the browser writes the form's values, the
\* status among them, to the contact document.  It runs in the tenant's
\* browser, so it is no step of the server's run.
onSubmit(c, status) ==
  /\ c \in 1..Len(contacts)
  /\ contacts[c].status # status
  /\ contacts' = [contacts EXCEPT ![c].status = status]
  /\ last' = [op |-> "onSubmit", client |-> NoClient, ret |-> Void]
  /\ UNCHANGED <<lockVars, managerVars, clientVars, callVars, messagesSent,
                 webhookPending, messageLogs, dispatchVars, inboundVars, steps>>

\* the store when the tenant closes a sale by hand: one contact that was
\* messaged
EditContacts ==
  {<<[userId |-> u, phone |-> <<"5511">>, status |-> "Contatado"]>> : u \in Users}

EditInit == ReadyInit(EditContacts)

EditNext ==
  \/ InboundNext
  \/ \E c \in 1..Len(contacts), status \in {"Recuperado", "Perdido"} : onSubmit(c, status)

EditSpec == EditInit /\ [][EditNext]_vars

\* ------------------------------- replies and dispatch passes of one tenant
\* The store while a reply is being answered: the contact that replied,
\* messaged before, and the tenant's contacts that still wait
CounterContacts ==
  {<<[userId |-> u, phone |-> <<"5511">>, status |-> "Contatado"]>> \o
     [i \in 1..n |-> [userId |-> u, phone |-> <<"5511">>, status |-> "Pendente"]] :
       n \in 1..(MaxContacts - 1), u \in Users}

\* handleIncomingMessage at `await client.sendMessage(chatId, answer)`: the
\* state messageEvent, queryResume and answerResume lead to for a message
\* of the first contact
CounterCalls ==
  {[i \in InboundIds |->
      IF i = 1
      THEN [pc |-> "send", client |-> h, userId |-> u,
            chatId |-> chatId, phone |-> BeforeAt(chatId),
            contact |-> 1, answer |-> generateAnswer("text"), sent |-> FALSE,
            error |-> FALSE]
      ELSE NoPass] : h \in Handles, u \in Users, chatId \in {<<"5511", "@", "c.us">>}}

CounterInit ==
  /\ ReadyWith(CounterContacts, CounterCalls)
  /\ inbound[1].userId = contacts[1].userId
  /\ owner[inbound[1].client] = inbound[1].userId

CounterNext ==
  \/ \E u \in Users : sendNewContacts(u)
  \/ \E h \in Handles, queryFailed \in BOOLEAN : sendNewContactsFetched(h, queryFailed)
  \/ \E p \in PassIds, ok \in BOOLEAN : sendMessageStep(p, ok)
  \/ \E i \in InboundIds, threw \in BOOLEAN : sendResume(i, threw)
  \/ \E i \in InboundIds, threw \in BOOLEAN : logResume(i, threw)
  \/ \E i \in InboundIds, threw \in BOOLEAN : statsResume(i, threw)
  \/ \E i \in InboundIds, threw \in BOOLEAN : updateResume(i, threw)

CounterSpec == CounterInit /\ [][CounterNext]_vars

\* ------------------------------------ session operations on Ready sessions
\* The session operations and events of Next, from Ready sessions and an
\* empty contact store: what a tenant does once it is connected
RunningInit == ReadyInit({<<>>})

RunningSpec == RunningInit /\ [][Next]_vars

\* --------------------------------------- passes of one tenant that overlap
\* Ready sessions each with two sendNewContacts passes awaiting
\* fetchPendingContacts (two webhook POSTs, or a POST during a cron tick),
\* and contacts of one tenant that wait
OverlapInit ==
  /\ ReadyDispatching(InitialContacts, {[i \in InboundIds |-> NoPass]}, 2)
  /\ Len(contacts) > 0

OverlapNext ==
  \/ \E u \in Users : sendNewContacts(u)
  \/ \E u \in Users : webhookPost(u, <<"5511">>)
  \/ \E u \in Users : webhookResume(u)
  \/ \E h \in Handles, queryFailed \in BOOLEAN : sendNewContactsFetched(h, queryFailed)
  \/ \E p \in PassIds, ok \in BOOLEAN : sendMessageStep(p, ok)

OverlapSpec == OverlapInit /\ [][OverlapNext]_vars

\* --------------------------------------------------- the cron job's ticks
\* passes of a client awaiting fetchPendingContacts are alike: a second one
\* adds nothing to the first
CappedPasses(f) == [h \in Handles |-> IF f[h] > 0 THEN 1 ELSE 0]

\* setInterval(runCron, CRON_INTERVAL_MS): one tick after another, for as
\* long as the server runs.  Here steps counts the steps since the last
\* tick.
cronTick ==
  /\ fetching' = CappedPasses(runCronPasses(fetching))
  /\ steps' = 0
  /\ last' = [op |-> "cronTick", client |-> NoClient, ret |-> Void]
  /\ UNCHANGED <<lockVars, managerVars, clientVars, callVars, storeVars, sending,
                 inboundVars>>

\* lines 26-34 of runCron: the pass has returned and its result is logged
passReturned(p) ==
  /\ sending[p].pc = "done"
  /\ sending' = [sending EXCEPT ![p] = NoPass]
  /\ DispatchStep("passReturned", sending[p].client, Void)
  /\ UNCHANGED <<lockVars, managerVars, clientVars, callVars, storeVars, fetching,
                 inboundVars>>

\* the store as the ticks go on: nothing, or one contact that waits
CronContacts ==
  {<<>>} \cup {<<[userId |-> u, phone |-> <<"5511">>, status |-> "Pendente"]>> : u \in Users}

CronInit == ReadyInit(CronContacts)

CronNext ==
  \/ cronTick
  \/ \E h \in Handles, queryFailed \in BOOLEAN : sendNewContactsFetched(h, queryFailed)
  \/ \E p \in PassIds, ok \in BOOLEAN : sendMessageStep(p, ok)
  \/ \E p \in PassIds : passReturned(p)

\* The interval timer keeps firing.  A pass that was started goes on by
\* itself: the query of fetchPendingContacts comes back, and not with an
\* error for ever, each send settles, and the pass returns.
CronFairness ==
  /\ WF_<<steps, last.op>>(cronTick)
  /\ \A h \in Handles : SF_steps(sendNewContactsFetched(h, FALSE))
  /\ \A p \in PassIds : WF_steps(\E ok \in BOOLEAN : sendMessageStep(p, ok))
  /\ \A p \in PassIds : WF_steps(passReturned(p))

CronSpec == CronInit /\ [][CronNext]_vars /\ CronFairness

\* ------------------------------------------------ the send interval
startSendingIntervalKeepsOld(live, old, intervalId) == live \cup {intervalId}

\* the timers still running after startSendingInterval: the tenant's
\* previous one, if any, was cleared (lines 80-82)
startSendingIntervalClears(live, old, intervalId) == (live \ {old}) \cup {intervalId}

\* a caller's setInterval(...) and startSendingInterval(userId, intervalId)
startSendingInterval(u, intervalId) ==
  /\ intervalId \notin liveIntervals
  /\ liveIntervals' = startSendingIntervalClears(liveIntervals, intervalTrackers[u],
                                                 intervalId)
  /\ intervalTrackers' = [intervalTrackers EXCEPT ![u] = intervalId]
  /\ Step("startSendingInterval", NoClient, Void)
  /\ UNCHANGED <<lockVars, activeClients, clientVars, callVars, storeVars,
                 dispatchVars, inboundVars>>

IntervalInit == ReadyInit({<<>>})

IntervalNext ==
  \/ \E u \in Users, intervalId \in IntervalIds : startSendingInterval(u, intervalId)
  \/ \E u \in Users : clearActiveClient(u)
  \/ \E h \in Handles, threw \in BOOLEAN : deleteClientResume(h, threw)
  \/ \E h \in Handles : BrowserClosed(h)

IntervalSpec == IntervalInit /\ [][IntervalNext]_vars

\* ======================================================== properties
\* Session states of the specification, read off the state of a client:
\* the flow keeps no state field of its own.

\* Initializing or AwaitingScan: constructed, no 'ready' handled, the
\* pairing timer still pending, destroy() never invoked
Pairing(h) ==
  /\ Created(h)
  /\ messageListeners[h] = 0
  /\ ~timeoutCleared[h]
  /\ ~timeoutFired[h]
  /\ destroyCalls[h] = 0

\* Ready: a 'ready' event was handled and the client is the registered one
Ready(h) ==
  /\ Created(h)
  /\ messageListeners[h] > 0
  /\ activeClients[owner[h]] = h

\* C1: every tenant has at most one client that has been constructed and
\* is not yet destroyed.
C1_AtMostOneLiveSession ==
  \A u \in Users : Cardinality({h \in Handles : owner[h] = u /\ ~destroyed[h]}) <= 1

\* C2: destroy() is never invoked a second time on the same client.
C2_DestroyedAtMostOnce ==
  \A h \in Handles : destroyCalls[h] <= 1

\* C3: once 'ready' was handled for a client its pairing timer is cleared,
\* and a timer callback that runs on a client that is already authenticated
\* (client.info set) invokes no destroy(), starts no deleteClient, leaves
\* the registry alone and rejects nothing.
C3_ReadyCancelsTimeout ==
  [][/\ \A h \in Handles : messageListeners'[h] > 0 => timeoutCleared'[h]
     /\ \A h \in Handles : (timeoutCallback(h) /\ info[h]) =>
          /\ destroyCalls' = destroyCalls
          /\ deleting' = deleting
          /\ activeClients' = activeClients
          /\ promise' = promise]_vars

\* the timer ran on an authenticated client, which then became Ready and
\* is registered, undestroyed and not failed
C3_LateTimerIgnored ==
  \E h \in Handles :
    /\ Ready(h)
    /\ timeoutFired[h]
    /\ timeoutCleared[h]
    /\ destroyCalls[h] = 0
    /\ promise[h].state # "rejected"

C5_AcquireIffFree ==
  [][\A u \in Users : acquireLock(u) =>
        /\ last'.ret \in {"true", "false"}
        /\ (last'.ret = "true") <=> (u \notin lockedUserIds)
        /\ u \in lockedUserIds'
        /\ u \notin lockedUserIds => lockedUserIds' = lockedUserIds \cup {u}
        /\ u \in lockedUserIds => lockedUserIds' = lockedUserIds]_vars

\* a second acquireLock for a locked user has just been refused
C5_SecondAcquireRefused ==
  /\ last.op = "acquireLock"
  /\ last.ret = "false"
  /\ "u1" \in lockedUserIds

\* C6: a generateQrCode call for a tenant whose lock is held and who has a
\* session still pairing returns LockContention and starts no flow, so no
\* second client is constructed.
C6_SecondPairingRefused ==
  [][\A u \in Users :
        (generateQrCode(u) /\ isLocked(u)
           /\ \E h \in Handles : owner[h] = u /\ Pairing(h)) =>
          /\ last'.ret = "LockContention"
          /\ flowReady' = flowReady
          /\ flowDeleting' = flowDeleting]_vars

C8_PairingReachesReady ==
  [][/\ \A h \in Handles, text \in QrTexts :
          (qrResume(h, text) /\ promise[h].state = "pending" /\ Len(text) > 0) =>
            /\ promise'[h].state = "resolved"
            /\ promise'[h].status = "pending_qr"
            /\ Len(promise'[h].qr) > 0
     /\ \A h \in Handles : readyEvent(h) =>
          /\ activeClients'[owner[h]] = h
          /\ getClientStatus(owner[h])' = "connected"
     /\ \A u \in Users : getClientStatus(u)' = "connected" =>
          \E h \in Handles : owner'[h] = u /\ messageListeners'[h] > 0]_vars

\* the call was answered with a payload and the session then became Ready
C8_ScannedAndReady ==
  \E h \in Handles :
    /\ Ready(h)
    /\ promise[h].state = "resolved"
    /\ Len(promise[h].qr) > 0
    /\ qrResolved[h]
    /\ destroyCalls[h] = 0

\* C9: the 'auth_failure' handler, in any session state, leaves the lock
\* free, has destroy() invoked on the session's client, leaves the registry
\* either empty or with a removal under way, and fails a pending call with
\* the authentication error.
C9_AuthFailureTearsDown ==
  [][\A h \in Handles : authFailureEvent(h) =>
        /\ ~isLocked(owner[h])'
        /\ destroyCalls'[h] > 0
        /\ \/ activeClients'[owner[h]] = NoClient
           \/ deleting'[activeClients'[owner[h]]] > 0
        /\ promise[h].state = "pending" =>
             (promise'[h].state = "rejected" /\ promise'[h].error = ErrAuth)]_vars

\* C10: the 'disconnected' handler of a Ready session starts a deleteClient
\* that invokes destroy() on the session's client and settles no call; when
\* that deleteClient resumes, whether destroy() resolved or threw, the
\* registry has no entry for the tenant and the status is disconnected.
C10_DisconnectRemovesEntry ==
  [][/\ \A h \in Handles : (disconnectedEvent(h) /\ Ready(h)) =>
          /\ deleting'[h] = deleting[h] + 1
          /\ destroyCalls'[h] = destroyCalls[h] + 1
          /\ promise' = promise
     /\ \A h \in Handles, threw \in BOOLEAN : deleteClientResume(h, threw) =>
          /\ activeClients'[owner[h]] = NoClient
          /\ getClientStatus(owner[h])' = "disconnected"]_vars

\* the 'disconnected' handler has just run on a Ready session whose call
\* had been answered: its client is being destroyed, nothing was rejected
C10_ReadyDisconnected ==
  \E h \in Handles :
    /\ last.op = "disconnectedEvent"
    /\ last.client = h
    /\ Ready(h)
    /\ deleting[h] = 1
    /\ destroyCalls[h] = 1
    /\ promise[h].state = "resolved"

\* C11: an explicit disconnect (clearActiveClient) issued in any session
\* state, a session still pairing and not yet registered included, has
\* destroy() invoked on every live client of the tenant.
C11_DisconnectDestroysAnyState ==
  [][\A u \in Users : clearActiveClient(u) =>
        \A h \in Handles :
          (owner[h] = u /\ ~destroyed[h]) => destroyCalls'[h] > 0]_vars

C13_ReadySideEffectsOnce ==
  \A h \in Handles : messageListeners[h] <= 1

\* C14: within one pairing attempt the caller is handed the pairing payload
\* once: the first 'qr' handler to finish on a pending call resolves it
\* with its payload, a call that is settled never changes again, and a 'qr'
\* event after the flag was set starts no rendering and settles nothing.
C14_PayloadSurfacedOnce ==
  [][\A h \in Handles :
        /\ promise[h].state # "pending" => promise'[h] = promise[h]
        /\ \A text \in QrTexts :
             /\ (qrResume(h, text) /\ promise[h].state = "pending" /\ Len(text) > 0) =>
                  /\ promise'[h].state = "resolved"
                  /\ promise'[h].qr = toDataURL(text)
             /\ (qrEvent(h, text) /\ qrResolved[h]) =>
                  /\ qrInflight' = qrInflight
                  /\ promise' = promise]_vars

\* a further 'qr' event has just arrived on a session that is not Ready and
\* whose call was already answered with a payload: nothing is being rendered
C14_SecondPayloadIgnored ==
  \E h \in Handles :
    /\ last.op = "qrEvent"
    /\ last.client = h
    /\ qrResolved[h]
    /\ promise[h].state = "resolved"
    /\ Len(promise[h].qr) > 0
    /\ messageListeners[h] = 0
    /\ \A text \in QrTexts : qrInflight[h][text] = 0

\* C15: a 'qr' event on a Ready session is ignored: it starts no rendering
\* (so nothing will be handed to the caller), and it leaves the registry and
\* the pending call as they are.
C15_PayloadAfterReadyIgnored ==
  [][\A h \in Handles, text \in QrTexts : (qrEvent(h, text) /\ Ready(h)) =>
        /\ qrInflight' = qrInflight
        /\ activeClients' = activeClients
        /\ promise' = promise]_vars

\* sendNewContacts passes of a user that have started and not yet returned
PassesInProgress(u) ==
  SumOver([h \in Handles |-> IF owner[h] = u THEN fetching[h] ELSE 0], Handles)
    + Cardinality({p \in PassIds : sending[p].pc = "send" /\ sending[p].userId = u})

\* C16: whatever starts them ('ready', the webhook, the cron tick, a manual
\* resend), at most one sendNewContacts pass of a tenant is in progress at
\* any time.
C16_OnePassPerTenant ==
  \A u \in Users : PassesInProgress(u) <= 1

\* the contacts a pass has attempted so far, in the order of the attempts
Attempted(pass) == [i \in 1..Len(pass.attempts) |-> pass.attempts[i].contact]

\* C17: the attempts of a pass are, in order and without repetition, the
\* contacts at the head of its fetched batch, and a pass that has returned
\* has attempted every contact of the batch, whichever sends failed.
C17_BatchAttemptedInOrder ==
  \A p \in PassIds : sending[p].pc \in {"send", "done"} =>
    /\ Len(sending[p].attempts) <= Len(sending[p].batch)
    /\ Attempted(sending[p]) = SubSeq(sending[p].batch, 1, Len(sending[p].attempts))
    /\ sending[p].pc = "done" => Len(sending[p].attempts) = Len(sending[p].batch)

\* a pass over three contacts has returned: the second send failed, the
\* third was attempted all the same and succeeded
C17_ThirdAttemptedAfterFailure ==
  \E p \in PassIds :
    /\ sending[p].pc = "done"
    /\ Len(sending[p].batch) = 3
    /\ sending[p].attempts[1].ok
    /\ ~sending[p].attempts[2].ok
    /\ sending[p].attempts[3].ok

\* sends of a pass that succeeded
Succeeded(pass) ==
  Cardinality({i \in 1..Len(pass.attempts) : pass.attempts[i].ok})

\* C18: the count a pass returns is the number of its sends that succeeded.
C18_CountIsSuccessfulSends ==
  \A p \in PassIds : sending[p].pc = "done" =>
    sending[p].result.count = Succeeded(sending[p])

\* C19: sendNewContacts and resendMessages for a tenant with no client in
\* the registry return the not-connected result, count 0, at once: no pass
\* is started, nothing is sent or counted, and every contact keeps its status.
C19_NotConnectedIsNoOp ==
  [][\A u \in Users :
        ((sendNewContacts(u) \/ resendMessages(u)) /\ activeClients[u] = NoClient) =>
          /\ UNCHANGED <<contacts, messagesSent, fetching, sending>>
          /\ last'.ret = NotConnected
          /\ last'.ret.count = 0
          /\ ~last'.ret.success]_vars

\* no tenant is connected, contacts are waiting, and a resend has just been
\* answered with the not-connected result
C19_ResendWhileDisconnected ==
  /\ last.op = "resendMessages"
  /\ \A u \in Users : activeClients[u] = NoClient
  /\ last.ret = NotConnected
  /\ Len(contacts) > 0
  /\ \A i \in 1..Len(contacts) : contacts[i].status = "Pendente"

\* C20: a handleIncomingMessage call that found a contact of the tenant in
\* status 'Contatado' or 'Respondido' ends with that contact in status
\* 'Respondido', and it has sent an answer only if the answer was not empty.
C20_MatchedContactResponded ==
  \A i \in InboundIds :
    (inbound[i].pc = "done" /\ inbound[i].contact # NoContact) =>
      /\ contacts[inbound[i].contact].status = "Respondido"
      /\ inbound[i].sent => inbound[i].answer # ""

\* C21: a handleIncomingMessage call whose query comes back and for whose
\* sender phone (message.from up to the '@') the tenant has no contact in
\* status 'Contatado' or 'Respondido' ends there: no contact is picked, no
\* answer is generated, nothing is sent, logged or counted, and no contact
\* changes, whatever other contacts with that phone exist.  A call that has
\* ended does nothing more.
C21_UnmatchedMessageDropped ==
  [][\A i \in InboundIds :
        /\ (/\ queryResume(i, FALSE)
            /\ \A c \in 1..Len(contacts) :
                 ~(/\ contacts[c].userId = inbound[i].userId
                   /\ contacts[c].phone = BeforeAt(inbound[i].chatId)
                   /\ contacts[c].status \in {"Contatado", "Respondido"})) =>
             /\ inbound'[i].pc = "done"
             /\ inbound'[i].contact = NoContact
             /\ inbound'[i].answer = ""
             /\ ~inbound'[i].sent
             /\ ~inbound'[i].error
             /\ UNCHANGED storeVars
        /\ inbound[i].pc = "done" => inbound'[i] = inbound[i]]_vars

\* a message was dropped although the tenant has two contacts with the
\* sender's phone, one 'Pendente' and one 'Recuperado' or 'Perdido': both
\* are as they were
C21_PendingContactIgnored ==
  \E i \in InboundIds :
    /\ inbound[i].pc = "done"
    /\ ~inbound[i].error
    /\ inbound[i].contact = NoContact
    /\ \E c, d \in 1..Len(contacts) :
         /\ contacts[c].userId = inbound[i].userId
         /\ contacts[d].userId = inbound[i].userId
         /\ contacts[c].phone = inbound[i].phone
         /\ contacts[d].phone = inbound[i].phone
         /\ contacts[c].status = "Pendente"
         /\ contacts[d].status \in {"Recuperado", "Perdido"}
    /\ \A u \in Users : messagesSent[u] = 0 /\ messageLogs[u] = 0

\* C22: a handleIncomingMessage call acts on one contact: the contact it
\* picks is the first of the tenant's contacts that match the sender phone
\* in status 'Contatado' or 'Respondido', its status update writes that
\* contact and no other, and it sends at most one reply.
C22_OnlyFirstMatchActedOn ==
  [][\A i \in InboundIds :
        /\ (queryResume(i, FALSE) /\ inbound'[i].contact # NoContact) =>
             /\ contacts[inbound'[i].contact].userId = inbound[i].userId
             /\ contacts[inbound'[i].contact].phone = BeforeAt(inbound[i].chatId)
             /\ contacts[inbound'[i].contact].status \in {"Contatado", "Respondido"}
             /\ \A d \in 1..(inbound'[i].contact - 1) :
                  ~(/\ contacts[d].userId = inbound[i].userId
                    /\ contacts[d].phone = BeforeAt(inbound[i].chatId)
                    /\ contacts[d].status \in {"Contatado", "Respondido"})
        /\ \A threw \in BOOLEAN : updateResume(i, threw) =>
             \A d \in 1..Len(contacts) :
               d # inbound[i].contact => contacts'[d] = contacts[d]
        /\ updateResume(i, FALSE) =>
             contacts'[inbound[i].contact].status = "Respondido"
        /\ \A threw \in BOOLEAN : sendResume(i, threw) =>
             (~inbound[i].sent /\ inbound'[i].pc # "send")]_vars

\* two contacts of the tenant matched the sender; the call answered once
\* and has ended: the first is 'Respondido', the second is still 'Contatado'
C22_SecondMatchUntouched ==
  \E i \in InboundIds :
    /\ inbound[i].pc = "done"
    /\ ~inbound[i].error
    /\ inbound[i].sent
    /\ inbound[i].contact = 1
    /\ Len(contacts) = 2
    /\ \A c \in 1..2 : /\ contacts[c].userId = inbound[i].userId
                       /\ contacts[c].phone = inbound[i].phone
    /\ contacts[1].status = "Respondido"
    /\ contacts[2].status = "Contatado"
    /\ messageLogs[inbound[i].userId] = 1
    /\ messagesSent[inbound[i].userId] = 1

\* C23: the server changes the status of a contact only from 'Pendente' to
\* 'Contatado' and from 'Contatado' to 'Respondido'; when handleIncomingMessage
\* writes 'Respondido' the contact is 'Contatado' or 'Respondido' at that
\* moment, so a contact the tenant has set to 'Recuperado' or 'Perdido'
\* while the answer was being generated is not overwritten.
C23_RespondedOnlyFromContactedOrResponded ==
  [][/\ \A c \in 1..Len(contacts) :
          (last'.op # "onSubmit" /\ contacts'[c].status # contacts[c].status) =>
            \/ contacts[c].status = "Pendente" /\ contacts'[c].status = "Contatado"
            \/ contacts[c].status = "Contatado" /\ contacts'[c].status = "Respondido"
     /\ \A i \in InboundIds : updateResume(i, FALSE) =>
          contacts[inbound[i].contact].status \in {"Contatado", "Respondido"}]_vars

\* C24: a tick of the cron job starts one sendNewContacts pass for every
\* tenant that has a client in the registry and none for any other tenant
\* (none at all when the registry is empty), and changes nothing else; this
\* holds whatever earlier passes did, and as long as the run goes on the
\* next tick can happen.
C24_TickDispatchesEveryReadyTenant ==
  [][/\ runCron =>
          /\ \A u \in Users : activeClients[u] # NoClient =>
               fetching'[activeClients[u]] = fetching[activeClients[u]] + 1
          /\ \A h \in Handles : (\A u \in Users : activeClients[u] # h) =>
               fetching'[h] = fetching[h]
          /\ UNCHANGED <<storeVars, sending, managerVars, inboundVars>>
     /\ steps < MaxDispatchSteps => ENABLED runCron]_vars

\* a tick has just started a pass for each of two connected tenants, after
\* an earlier pass of one of them had a send fail
C24_TickAfterFailedPass ==
  /\ last.op = "runCron"
  /\ \A u \in Users : activeClients[u] # NoClient /\ fetching[activeClients[u]] = 1
  /\ \E p \in PassIds :
       /\ sending[p].pc = "done"
       /\ \E k \in 1..Len(sending[p].attempts) : ~sending[p].attempts[k].ok

\* C25: when client.destroy() throws inside deleteClient, the call still
\* removes the tenant's registry entry and returns without an error: a
\* disconnect or an event handler that awaited it settles nothing, and a
\* generateQrCode that awaited it goes on to construct its new client.
C25_RemovalSurvivesDestroyFailure ==
  [][\A h \in Handles :
        /\ deleteClientResume(h, TRUE) =>
             /\ activeClients'[owner[h]] = NoClient
             /\ getClientStatus(owner[h])' = "disconnected"
             /\ last'.ret = Void
             /\ promise' = promise
        /\ flowDeleteClientResume(h, TRUE) =>
             /\ activeClients'[owner[h]] = NoClient
             /\ last'.ret = Void
             /\ promise' = promise
             /\ flowReady'[owner[h]] = flowReady[owner[h]] + 1]_vars

\* a Ready session was superseded, destroy() of its client threw (the
\* browser is still open), the entry went all the same and the new client
\* of the tenant has just been constructed
C25_PairingAfterFailedDestroy ==
  \E h, g \in Handles :
    /\ last.op = "createClient"
    /\ last.client = g
    /\ g # h
    /\ owner[g] = owner[h]
    /\ Created(h)
    /\ destroyCalls[h] = 1
    /\ ~destroyed[h]
    /\ flowDeleting[h] = 0
    /\ deleting[h] = 0
    /\ messageListeners[h] > 0
    /\ activeClients[owner[h]] = NoClient

\* a session that has been torn down: destroy() was invoked on its client,
\* or a later generateQrCode of the tenant has constructed a newer client
TornDown(h) ==
  /\ Created(h)
  /\ \/ destroyCalls[h] > 0
     \/ \E g \in Handles : g > h /\ owner[g] = owner[h]

\* C26: once a session has been torn down, no event of its client changes
\* the registry (a late 'ready' adds no entry), and its pairing timer does
\* not fire any more.
C26_TornDownSessionIsSilent ==
  [][\A h \in Handles : TornDown(h) =>
        /\ (\/ readyEvent(h)
            \/ authFailureEvent(h)
            \/ disconnectedEvent(h)
            \/ \E text \in QrTexts : qrEvent(h, text)) => activeClients' = activeClients
        /\ ~timeoutCallback(h)]_vars

\* C27: when generateQrCode constructs the new client of a tenant, every
\* older client of the tenant has been destroyed and is out of the
\* registry, so an old and a new client of one tenant are never live together.
C27_OldSessionGoneBeforeNew ==
  [][\A u \in Users : createClient(u) =>
        \A h \in Handles : owner[h] = u =>
          /\ destroyed[h]
          /\ activeClients[u] # h]_vars

\* C28: releaseLock leaves the tenant unlocked and every other tenant's
\* lock as it was, so on an unlocked tenant it changes nothing, a second
\* release changes nothing more, and the acquireLock that follows a release
\* returns true.
C28_ReleaseIsIdempotent ==
  [][/\ \A u \in Users : releaseLock(u) =>
          /\ lockedUserIds' = lockedUserIds \ {u}
          /\ u \notin lockedUserIds => lockedUserIds' = lockedUserIds
          /\ acquireLockResult(u)'
          /\ last'.ret = Void
          /\ UNCHANGED <<managerVars, clientVars, callVars>>
     /\ \A u \in Users :
          releaseLockResult(releaseLockResult(lockedUserIds, u), u)
            = releaseLockResult(lockedUserIds, u)]_vars

\* releaseLock has just run as the first operation, on a tenant that was
\* not locked: no tenant is locked
C28_ReleasedWhileUnlocked ==
  /\ last.op = "releaseLock"
  /\ last.ret = Void
  /\ steps = 1
  /\ lockedUserIds = {}

\* what a step leaves alone when it belongs to tenant u: the lock, the
\* registry entry, the interval and every client of each other tenant
OtherTenantsUntouched(u) ==
  \A v \in Users \ {u} :
    /\ (v \in lockedUserIds') = (v \in lockedUserIds)
    /\ activeClients'[v] = activeClients[v]
    /\ intervalTrackers'[v] = intervalTrackers[v]
    /\ \A g \in Handles : owner[g] = v =>
         /\ owner'[g] = v
         /\ info'[g] = info[g]
         /\ destroyCalls'[g] = destroyCalls[g]
         /\ destroyed'[g] = destroyed[g]
         /\ timeoutCleared'[g] = timeoutCleared[g]
         /\ timeoutFired'[g] = timeoutFired[g]
         /\ qrResolved'[g] = qrResolved[g]
         /\ promise'[g] = promise[g]
         /\ messageListeners'[g] = messageListeners[g]
         /\ deleting'[g] = deleting[g]
         /\ flowDeleting'[g] = flowDeleting[g]

\* C29: an operation on the user lock, a generateQrCode or disconnect call
\* and an event or continuation of a client change the lock, the registry
\* entry and the clients of their own tenant only; and a client is in the
\* registry under the tenant it was constructed for, never under two.
C29_TenantsAreIsolated ==
  [][/\ \A u \in Users :
          (\/ acquireLock(u)
           \/ releaseLock(u)
           \/ clearActiveClient(u)
           \/ generateQrCode(u)
           \/ createClient(u)) => OtherTenantsUntouched(u)
     /\ \A h \in Handles :
          (\/ \E threw \in BOOLEAN : deleteClientResume(h, threw)
           \/ \E threw \in BOOLEAN : flowDeleteClientResume(h, threw)
           \/ timeoutCallback(h)
           \/ \E text \in QrTexts : qrEvent(h, text)
           \/ \E text \in QrTexts : qrResume(h, text)
           \/ readyEvent(h)
           \/ authFailureEvent(h)
           \/ disconnectedEvent(h)
           \/ initializeRejected(h)) => OtherTenantsUntouched(owner[h])
     /\ \A u \in Users : activeClients'[u] # NoClient =>
          /\ owner'[activeClients'[u]] = u
          /\ \A v \in Users \ {u} : activeClients'[v] # activeClients'[u]]_vars

\* tenant u1 is locked and has a Ready, registered, undestroyed session;
\* a disconnect for u2 has just run and left all of that as it was
C29_DisconnectOfOtherTenant ==
  \E h \in Handles :
    /\ last.op = "clearActiveClient"
    /\ disconnects["u2"] = 1
    /\ disconnects["u1"] = 0
    /\ "u1" \in lockedUserIds
    /\ owner[h] = "u1"
    /\ activeClients["u1"] = h
    /\ messageListeners[h] = 1
    /\ destroyCalls[h] = 0
    /\ activeClients["u2"] = NoClient

C31_TimeoutSparesNewerSession ==
  [][\A h, g \in Handles :
       (/\ timeoutCallback(h)
        /\ g > h
        /\ owner[g] = owner[h]
        /\ info[g]
        /\ messageListeners[g] > 0
        /\ activeClients[owner[h]] = g) =>
          /\ destroyCalls'[g] = destroyCalls[g]
          /\ deleting'[g] = deleting[g]]_vars

\* C32: every generateQrCode call that has constructed its client settles
\* its Promise, resolved or rejected, unless the run reaches its bound
\* first; so also when 'ready' comes without any 'qr' before it.
C32_EveryCallSettles ==
  \A h \in Handles :
    [](Created(h) => <>(promise[h].state # "pending" \/ steps = MaxSteps))

\* C33: no client is orphaned: every client that has been constructed is
\* still pairing with its timer pending, or is the tenant's entry in the
\* registry, or has had destroy() invoked on it.
C33_NoOrphanedClient ==
  \A h \in Handles : Created(h) =>
    \/ ~timeoutCleared[h] /\ ~timeoutFired[h]
    \/ activeClients[owner[h]] = h
    \/ destroyCalls[h] > 0

\* C34: whenever a caller could read the registry (between any two steps),
\* a tenant that getClientStatus reports connected has, as the client
\* getClient returns, one on which destroy() has not been invoked.
C34_RegistryHoldsNoDestroyedClient ==
  \A u \in Users : getClientStatus(u) = "connected" =>
    /\ Created(getClient(u))
    /\ destroyCalls[getClient(u)] = 0

\* C35: deleteClient removes the registry entry of the client it
\* destroyed and no other: when it resumes after its await and the
\* tenant's entry is by then a different client, the entry stays.
C35_DeleteRemovesOnlyItsOwnEntry ==
  [][\A h \in Handles :
       ((\E threw \in BOOLEAN : deleteClientResume(h, threw) \/ flowDeleteClientResume(h, threw))
        /\ activeClients[owner[h]] # h) => activeClients' = activeClients]_vars

\* the sends to contact c that succeeded, over all passes
SuccessfulSends(c) ==
  {<<p, i>> \in PassIds \X (1..Len(contacts)) :
     /\ sending[p].pc # "free"
     /\ i <= Len(sending[p].attempts)
     /\ sending[p].attempts[i].contact = c
     /\ sending[p].attempts[i].ok}

\* C36: whatever started the passes and however they interleave, no
\* contact is sent the recovery message with success more than once.
C36_AtMostOneSuccessfulSend ==
  \A c \in 1..Len(contacts) : Cardinality(SuccessfulSends(c)) <= 1

\* the step that has just run is a send to contact c
AttemptedNow(c) ==
  /\ last.op = "sendMessageStep"
  /\ \E p \in PassIds :
       /\ sending[p].pc \in {"send", "done"}
       /\ sending[p].client = last.client
       /\ Len(sending[p].attempts) > 0
       /\ sending[p].attempts[Len(sending[p].attempts)].contact = c

C38_InboundFailureIsContained ==
  [][\A i \in InboundIds :
       /\ (\/ queryResume(i, TRUE) \/ sendResume(i, TRUE) \/ logResume(i, TRUE)
           \/ statsResume(i, TRUE) \/ updateResume(i, TRUE)) =>
            /\ inbound'[i].pc = "done"
            /\ inbound'[i].error
            /\ \A j \in InboundIds \ {i} : inbound'[j] = inbound[j]
            /\ UNCHANGED <<messageListeners, destroyCalls, destroyed, activeClients>>
       /\ (inbound[i].pc = "send" /\ sendResume(i, TRUE)) =>
            /\ ~inbound'[i].sent
            /\ UNCHANGED <<contacts, messagesSent, messageLogs>>
       /\ inbound[i].pc = "done" => inbound'[i] = inbound[i]]_vars

\* client.sendMessage has just failed for a reply to a contact that was
\* messaged: the call is over, nothing was sent, logged or counted, and the
\* contact is still 'Contatado'
C38_SendFailedContactUntouched ==
  \E i \in InboundIds :
    /\ last.op = "sendResume"
    /\ inbound[i].pc = "done"
    /\ inbound[i].error
    /\ ~inbound[i].sent
    /\ inbound[i].answer # ""
    /\ contacts[inbound[i].contact].status = "Contatado"
    /\ messagesSent[inbound[i].userId] = 0
    /\ messageLogs[inbound[i].userId] = 0
    /\ messageListeners[inbound[i].client] = 1

\* C39: after every step the interval timers that are running are exactly
\* the ones the tenants have tracked, one per tenant at most and no two
\* tenants the same; startSendingInterval leaves the tenant's previous
\* timer cleared and the new one tracked; deleteClient leaves the tenant
\* with no timer, also when the tenant has no client in the registry; and
\* on a tenant with no timer it changes nothing about the timers.
C39_OneLiveIntervalPerTenant ==
  [][/\ liveIntervals' = {intervalTrackers'[u] : u \in Users} \ {NoInterval}
     /\ \A u, v \in Users :
          (u # v /\ intervalTrackers'[u] # NoInterval) =>
            intervalTrackers'[u] # intervalTrackers'[v]
     /\ \A u \in Users, intervalId \in IntervalIds :
          (intervalId \notin liveIntervals /\ startSendingInterval(u, intervalId)) =>
            /\ intervalTrackers'[u] = intervalId
            /\ intervalId \in liveIntervals'
            /\ intervalTrackers[u] \notin liveIntervals'
            /\ \A v \in Users \ {u} : intervalTrackers'[v] = intervalTrackers[v]
     /\ \A u \in Users : clearActiveClient(u) =>
          /\ intervalTrackers'[u] = NoInterval
          /\ intervalTrackers[u] \notin liveIntervals'
          /\ intervalTrackers[u] = NoInterval =>
               UNCHANGED <<intervalTrackers, liveIntervals>>
          /\ \A v \in Users \ {u} : intervalTrackers'[v] = intervalTrackers[v]]_vars

\* a tenant with no client in the registry had a timer, replaced it by a
\* second one, and a deleteClient has just cleared that: none is running
C39_ReplacedThenStoppedWithoutClient ==
  \E u \in Users :
    /\ last.op = "clearActiveClient"
    /\ steps = 3
    /\ disconnects[u] = 1
    /\ owner = [h \in Handles |-> NoUser]
    /\ intervalTrackers[u] = NoInterval
    /\ liveIntervals = {}

====
